---- MODULE Spec2Model ----
(***************************************************************************)
(* Lineup optimizer (src/optimization_model.py), stint fatigue updater and *)
(* button handlers (src/app.py) of the coach dashboard.                    *)
(*                                                                         *)
(* Numbers.  The program computes in floats; the model computes the same   *)
(* expressions exactly, in fixed units:                                    *)
(*   - a fatigue level (0..100 on the dashboard) is held in sevenths of a  *)
(*     point, 0..700, because level = 100*(t-0.3)/0.7 is a multiple of 1/7 *)
(*     whenever t is a multiple of 0.1;                                    *)
(*   - an energy fraction t_j (0.3..1.0) is held in tenths, 3..10;         *)
(*   - a stint duration is held in seconds, and is a multiple of 600 s, so *)
(*     that 0.02/min and 0.01/min move t_j by whole tenths;                *)
(*   - an adjusted score (and an objective) is held multiplied by          *)
(*     ScoreScale, the least number that makes beta*t^a and beta*(1/t)^a   *)
(*     integers for every t in 3..10 tenths and a in {1,2};                *)
(*   - disability scores and the cap are whole points.                     *)
(***************************************************************************)
EXTENDS Integers, Sequences, FiniteSets

\* ------------------------------------------------------------------ bounds
NPlayers == 5          \* rows of team_df
MaxUnavailable == 2    \* players switched off in an availability map
MaxForced == 2         \* distinct ids in an enumerated pre_selected list
MaxScore == 7          \* home_score, away_score range over 0..MaxScore
MaxTicks == 2          \* longest stint, in units of 600 s
MaxStints == 2         \* stint updates in one run
MaxBeta == 5           \* value_score ranges over -MaxBeta..MaxBeta
MaxClock == 1          \* the dashboard clock runs to 600 * MaxClock seconds
MaxSaves == 1          \* stints saved in one dashboard run

\* ------------------------------------------------------- program constants
LineupSize == 4        \* lineup_size
DisabilityCap == 8     \* disability_cap = 8.0
FatigueMax == 700      \* 100 on the dashboard scale, in sevenths of a point
TMin == 3              \* 0.3, in tenths
TMax == 10             \* 1.0, in tenths
ScoreScale == 63504 * 25

VARIABLES
    team_df,          \* optimize_lineup argument: player_id -> row
    availability,     \* player_id -> BOOLEAN
    fatigue,          \* player_id -> fatigue level (st.session_state.fatigue)
    home_score,
    away_score,
    pre_selected,     \* list of player ids
    cap_arg,          \* the disability_cap argument of optimize_lineup
    solver_ok,        \* environment: whether the Gurobi calls succeed
    pc,               \* "call", "returned", "raised"; "weigh", "weighed"; "stint";
                      \* "adjust", "adjusted"; "shell"
    result,           \* value returned by optimize_lineup
    solver_called,    \* whether _optimize_with_gurobi was entered
    weight,           \* value returned by calculate_strategy_weight
    stint_dur,        \* stint_duration_seconds of the last updater call
    on_court,         \* lineup argument of the last updater call
    fatigue_before,   \* st.session_state.fatigue read by the last updater call
    stints,           \* number of updater calls so far
    adj_beta,         \* _adj argument: value_score
    adj_t,            \* _adj argument: t_j
    adj_alpha,        \* strategy weight in force when _adj runs
    adj_score,        \* score_adjusted computed for the row
    session_lineup,   \* st.session_state.lineup
    last_opt,         \* st.session_state.last_opt
    stint_start,      \* st.session_state.stint_start: <<>> for None, else <<time>>
    game_start,       \* st.session_state.game_start: <<>> for None, else <<time>>
    live_stints,      \* st.session_state.live_stints
    clock,            \* time.time(), in seconds
    event,            \* the handler that ran last
    st_error,         \* whether the last handler called st.error
    crashed           \* whether an exception escaped the last handler

vars == <<team_df, availability, fatigue, home_score, away_score, pre_selected,
          cap_arg, solver_ok, pc, result, solver_called, weight,
          stint_dur, on_court, fatigue_before, stints,
          adj_beta, adj_t, adj_alpha, adj_score,
          session_lineup, last_opt, stint_start, game_start, live_stints, clock,
          event, st_error, crashed>>

adjVars == <<adj_beta, adj_t, adj_alpha, adj_score>>
shellVars == <<session_lineup, last_opt, stint_start, game_start, live_stints, clock,
               event, st_error, crashed>>

\* ----------------------------------------------------------------- helpers
Min(a, b) == IF a <= b THEN a ELSE b
Max(a, b) == IF a >= b THEN a ELSE b

RECURSIVE Pow(_, _)
Pow(x, n) == IF n <= 0 THEN 1 ELSE x * Pow(x, n - 1)

RECURSIVE SumOver(_, _)
SumOver(S, f) ==
    IF S = {} THEN 0
    ELSE LET x == CHOOSE y \in S : TRUE IN f[x] + SumOver(S \ {x}, f)

\* dict.get(key, default)
Get(d, key, default) == IF key \in DOMAIN d THEN d[key] ELSE default

TeamIds == 1..NPlayers
ForeignId == NPlayers + 1      \* an id that is no row of team_df
AllIds == TeamIds \cup {ForeignId}

\* the ids of S in table order
RECURSIVE InOrder(_, _)
InOrder(S, n) ==
    IF n = 0 THEN <<>>
    ELSE IF n \in S THEN Append(InOrder(S, n - 1), n) ELSE InOrder(S, n - 1)

SeqToSet(s) == {s[i] : i \in 1..Len(s)}

\* max(lo, min(hi, x))
Clamp_none(lo, hi, x) == x
Clamp(lo, hi, x) == Max(lo, Min(hi, x))

\* ------------------------------------------------- LineupOptimizer: weights
calculate_strategy_weight_strict(home, away) ==
    LET diff == home - away
    IN  IF diff <= -2 THEN 0
        ELSE IF -2 <= diff /\ diff < 2 THEN 1
        ELSE 2

calculate_strategy_weight(home, away) ==
    LET diff == home - away
    IN  IF diff < -2 THEN 0
        ELSE IF -2 <= diff /\ diff <= 2 THEN 1
        ELSE 2

\* ----------------------------------------------------- fatigue conversions
\* (fatigue_level / 100.0) * 0.7 + 0.3
LevelToTj(level) == (level * 7) \div FatigueMax + TMin

\* ((t_new - 0.3) / 0.7) * 100
TjToLevel(t) == ((t - TMin) * FatigueMax) \div 7

\* t_j - 0.02 * minutes on court, t_j + 0.01 * minutes on the bench
StintTNew_swapped(t_j, minutes, is_on_court) ==
    IF is_on_court THEN t_j + (2 * minutes) \div 10 ELSE t_j - minutes \div 10

StintTNew(t_j, minutes, is_on_court) ==
    IF is_on_court THEN t_j - (2 * minutes) \div 10 ELSE t_j + minutes \div 10

update_fatigue_multiplier(t_j, stint_duration_minutes, is_on_court) ==
    Clamp(TMin, TMax, StintTNew(t_j, stint_duration_minutes, is_on_court))

\* --------------------------------------------- LineupOptimizer: the request
\* t_j_dict, then available_df["t_j"] = t_j_dict.get(x, 1.0)
TjOf(fatigue_levels, p) ==
    IF p \in DOMAIN fatigue_levels
    THEN Clamp(TMin, TMax, LevelToTj(fatigue_levels[p]))
    ELSE TMax

\* score_adjusted of one row, times ScoreScale
ScoreAdjusted_noInverse(alpha, beta, t_j) ==
    IF alpha <= 0 THEN beta * ScoreScale
    ELSE LET tj == Clamp(TMin, TMax, t_j)
         IN  beta * ((ScoreScale \div Pow(10, alpha)) * Pow(tj, alpha))

ScoreAdjusted_linear(alpha, beta, t_j) ==
    IF alpha <= 0 THEN beta * ScoreScale
    ELSE LET tj == Clamp(TMin, TMax, t_j)
         IN  IF beta >= 0
             THEN beta * ((ScoreScale \div 10) * tj)
             ELSE beta * ((ScoreScale * Pow(10, alpha)) \div Pow(tj, alpha))

ScoreAdjusted(alpha, beta, t_j) ==
    IF alpha <= 0 THEN beta * ScoreScale
    ELSE LET tj == Clamp(TMin, TMax, t_j)
         IN  IF beta >= 0
             THEN beta * ((ScoreScale \div Pow(10, alpha)) * Pow(tj, alpha))
             ELSE beta * ((ScoreScale * Pow(10, alpha)) \div Pow(tj, alpha))

\* ids of the rows of team_df kept in available_df
AvailableIds(team, avail) == {p \in DOMAIN team : Get(avail, p, TRUE)}

\* available_df with the t_j and score_adjusted columns
AvailableDf(team, avail, fatigue_levels, alpha) ==
    [p \in AvailableIds(team, avail) |->
        [player_id |-> p,
         value_score |-> team[p].value_score,
         disability_score |-> team[p].disability_score,
         t_j |-> TjOf(fatigue_levels, p),
         score_adjusted |->
             ScoreAdjusted(alpha, team[p].value_score, TjOf(fatigue_levels, p))]]

\* len(available_df) < lineup_size
NotEnoughPlayers_offByOne(df, lineup_size) == Cardinality(DOMAIN df) < lineup_size - 1
NotEnoughPlayers(df, lineup_size) == Cardinality(DOMAIN df) < lineup_size

\* [p for p in pre_selected if p in available_df["player_id"].values]
PreSelectedAvailable(pre, df) == SelectSeq(pre, LAMBDA p : p \in DOMAIN df)

\* len(pre_selected_available) < len(pre_selected)
SomePreSelectedMissing_never(pre_av, pre) == FALSE
SomePreSelectedMissing(pre_av, pre) == Len(pre_av) < Len(pre)

\* the cap handed to the solver: the argument is overwritten with 8.0
EnforcedCap(disability_cap) == DisabilityCap

InfeasibleResult ==
    [lineup |-> <<>>, objective |-> 0, disability_sum |-> 0, breakdown |-> <<>>]

NoResult == [none |-> TRUE]

Returned(r) == [pc |-> "returned", result |-> r, solver_called |-> FALSE]
SolverReturned(r) == [pc |-> "returned", result |-> r, solver_called |-> TRUE]
SolverRaised == [pc |-> "raised", result |-> NoResult, solver_called |-> TRUE]

\* ------------------------------------------------- the binary program built
DisabilitySum(df, S) == SumOver(S, [p \in DOMAIN df |-> df[p].disability_score])

\* objective coefficient of x[pid]
ObjCoeff_raw(row) == row.value_score * ScoreScale
ObjCoeff(row) == row.score_adjusted

ObjectiveOf(df, S) == SumOver(S, [p \in DOMAIN df |-> ObjCoeff(df[p])])

\* assignments of x that satisfy constraints 1, 2 and 3
FeasibleLineups_noCap(df, pre_av, cap, lineup_size) ==
    {S \in SUBSET DOMAIN df :
        /\ Cardinality(S) = lineup_size
        /\ \A i \in 1..Len(pre_av) : pre_av[i] \in S}

FeasibleLineups(df, pre_av, cap, lineup_size) ==
    {S \in SUBSET DOMAIN df :
        /\ Cardinality(S) = lineup_size
        /\ DisabilitySum(df, S) <= cap
        /\ \A i \in 1..Len(pre_av) : pre_av[i] \in S}

\* model.optimize(): the assignments the solver may report as optimal
OptimalLineups(df, feasible) ==
    {S \in feasible : \A T \in feasible : ObjectiveOf(df, T) <= ObjectiveOf(df, S)}

Breakdown(df, combo, pre_av, alpha) ==
    [i \in 1..Len(combo) |->
        [player_id |-> combo[i],
         value_score |-> df[combo[i]].value_score,
         t_j |-> df[combo[i]].t_j,
         alpha |-> alpha,
         adjusted_score |-> df[combo[i]].score_adjusted,
         disability_score |-> df[combo[i]].disability_score,
         is_pre_selected |-> combo[i] \in SeqToSet(pre_av)]]

\* solution extraction for the assignment S
Solution(df, S, pre_av, alpha) ==
    LET best_combo == InOrder(S, NPlayers)
    IN  [lineup |-> best_combo,
         objective |-> ObjectiveOf(df, S),
         disability_sum |-> DisabilitySum(df, S),
         strategy_weight_alpha |-> alpha,
         breakdown |-> Breakdown(df, best_combo, pre_av, alpha)]

\* the else branch: no optimal solution found
NoSolution_raise == {SolverRaised}
NoSolution == {SolverReturned(InfeasibleResult)}

\* the outcomes of _optimize_with_gurobi
optimize_with_gurobi(df, pre_av, cap, lineup_size, alpha, ok) ==
    IF ~ok THEN {SolverRaised}
    ELSE LET feasible == FeasibleLineups(df, pre_av, cap, lineup_size)
         IN  IF feasible # {}
             THEN {SolverReturned(Solution(df, S, pre_av, alpha)) :
                      S \in OptimalLineups(df, feasible)}
             ELSE NoSolution

\* the outcomes of LineupOptimizer.optimize_lineup
optimize_lineup(team, avail, fatigue_levels, home, away, pre, cap, lineup_size, ok) ==
    LET alpha == calculate_strategy_weight(home, away)
        disability_cap == EnforcedCap(cap)
        df == AvailableDf(team, avail, fatigue_levels, alpha)
        pre_av == PreSelectedAvailable(pre, df)
    IN  IF NotEnoughPlayers(df, lineup_size) THEN {Returned(InfeasibleResult)}
        ELSE IF SomePreSelectedMissing(pre_av, pre) THEN {Returned(InfeasibleResult)}
        ELSE optimize_with_gurobi(df, pre_av, disability_cap, lineup_size, alpha, ok)

\* ------------------------------------------------------ stint fatigue update
\* the body of the loop: one player's new fatigue level
StintLevel(fatigue_level, stint_duration_minutes, is_on_court) ==
    LET t_old == LevelToTj(fatigue_level)
        t_new == Clamp(TMin, TMax,
                       StintTNew(t_old, stint_duration_minutes, is_on_court))
    IN  Clamp(0, FatigueMax, TjToLevel(t_new))

update_fatigue_after_stint(fat, stint_duration_seconds, lineup) ==
    LET stint_duration_minutes == stint_duration_seconds \div 60
    IN  [player_id \in DOMAIN fat |->
            StintLevel(fat[player_id], stint_duration_minutes,
                       player_id \in SeqToSet(lineup))]

\* --------------------------------------------------- dashboard (src/app.py)
\* except RuntimeError as e: st.error(...); return the empty result
ExceptRuntimeError_silent ==
    [result |-> InfeasibleResult, st_error |-> FALSE, crashed |-> FALSE,
     solver_called |-> TRUE]

ExceptRuntimeError ==
    [result |-> InfeasibleResult, st_error |-> TRUE, crashed |-> FALSE,
     solver_called |-> TRUE]

\* the outcomes of app.optimize_lineup, the wrapper the buttons call
app_optimize_lineup(team, avail, fatigue_levels, home, away, pre, ok) ==
    { IF o.pc = "raised" THEN ExceptRuntimeError
      ELSE [result |-> o.result, st_error |-> FALSE, crashed |-> FALSE,
            solver_called |-> o.solver_called] :
      o \in optimize_lineup(team, avail, fatigue_levels, home, away, pre,
                            DisabilityCap, LineupSize, ok) }

\* fmt_time: "MM:SS" as <<minutes, seconds>>; the argument is <<>> for None
fmt_time(seconds) ==
    IF seconds = <<>> THEN <<0, 0>>
    ELSE LET sec == Max(0, seconds[1]) IN <<sec \div 60, sec % 60>>

\* elapsed(ts) at time now; <<>> stands for None
elapsed(ts, now) == IF ts = <<>> THEN <<>> ELSE <<now - ts[1]>>

\* len(lineup) < 4 or len(set(lineup)) < 4
InvalidLineup_never(l) == FALSE
InvalidLineup(l) == Len(l) < LineupSize \/ Cardinality(SeqToSet(l)) < LineupSize

\* reset_all: fatigue = {pid: 100 for pid in all_ids}
ResetFatigue_zero == [p \in TeamIds |-> 0]
ResetFatigue == [p \in TeamIds |-> FatigueMax]

\* the record End + Save appends to live_stints, without its game_id and
\* end_time_game columns, which are only displayed
StintRecord(dur, now) ==
    [stint_duration |-> fmt_time(dur),
     home_score |-> home_score,
     away_score |-> away_score,
     lineup |-> session_lineup]

\* ------------------------------------------------------------ input domains
Row(p, v, d) == [player_id |-> p, value_score |-> v, disability_score |-> d]

\* a team table with the given value and disability columns (repeated cyclically
\* when the table has more rows than the columns list)
Table(vals, costs) ==
    [p \in TeamIds |->
        Row(p, vals[((p - 1) % Len(vals)) + 1], costs[((p - 1) % Len(costs)) + 1])]

Rosters ==
    { Table(<<3, -2, 5, 1, 0>>, <<2, 2, 2, 2, 2>>),
      Table(<<5, 4, 3, -1, 2>>, <<3, 3, 2, 2, 1>>),
      Table(<<4, 2, -3, 1, 3>>, <<3, 3, 3, 2, 3>>),
      Table(<<2, 2, 2, 2, 2>>, <<2, 1, 2, 1, 2>>) }

AvailabilityMaps ==
    { [p \in TeamIds |-> p \notin U] :
        U \in {V \in SUBSET TeamIds : Cardinality(V) <= MaxUnavailable} }

Fresh == [p \in TeamIds |-> FatigueMax]

\* all fresh, or levels 0, 300 and 700 (t_j 0.3, 0.6, 1.0) dealt round the table
FatigueMaps ==
    {Fresh} \cup
    { [p \in TeamIds |-> <<0, 300, FatigueMax>>[((p + k) % 3) + 1]] : k \in 0..2 }

\* one scoreboard for each strategy weight
Scoreboards == { <<0, 3>>, <<1, 1>>, <<3, 0>> }

\* pre_selected lists: up to MaxForced distinct ids (of the team or not) in table
\* order, a swapped pair, a repeated id, and the whole team
ForcedLists ==
    { InOrder(S, NPlayers + 1) :
        S \in {T \in SUBSET AllIds : Cardinality(T) <= MaxForced} }
    \cup { <<2, 1>>, <<1, 1>>, InOrder(TeamIds, NPlayers) }

CapArgs == { DisabilityCap - 2, DisabilityCap, DisabilityCap + 2 }

\* on-court lineups handed to the updater: 4 distinct ids
Lineups ==
    { InOrder(S, NPlayers) : S \in {T \in SUBSET TeamIds : Cardinality(T) = LineupSize} }

\* stint durations in seconds; the wall clock may read zero or step backwards
Durations == { 600 * k : k \in -1..MaxTicks }

\* value_score and t_j of one row
Betas == -MaxBeta..MaxBeta
EnergyFractions == TMin..TMax

\* the dashboard's team, slot selections and checkboxes
ShellTeam == Table(<<5, 4, 3, -1, 2>>, <<3, 3, 2, 2, 1>>)
SlotChoices == { <<>>, <<1>> }
Toggled == {1, 2}

\* the variables a specification does not use keep these values
AdjIdle == adj_beta = 0 /\ adj_t = TMax /\ adj_alpha = 0 /\ adj_score = 0

ShellIdle ==
    /\ session_lineup = <<>>
    /\ last_opt = NoResult
    /\ stint_start = <<>>
    /\ game_start = <<>>
    /\ live_stints = <<>>
    /\ clock = 0
    /\ event = "none"
    /\ st_error = FALSE
    /\ crashed = FALSE

\* ----------------------------------------- specification: optimize_lineup
InitOpt ==
    /\ team_df \in Rosters
    /\ availability \in AvailabilityMaps
    /\ fatigue \in FatigueMaps
    /\ \E sb \in Scoreboards : home_score = sb[1] /\ away_score = sb[2]
    /\ pre_selected \in ForcedLists
    /\ cap_arg \in CapArgs
    /\ solver_ok = TRUE
    /\ pc = "call"
    /\ result = NoResult
    /\ solver_called = FALSE
    /\ weight = -1
    /\ stint_dur = 0
    /\ on_court = <<>>
    /\ fatigue_before = fatigue
    /\ stints = 0
    /\ AdjIdle
    /\ ShellIdle

\* one call of optimize_lineup, the solver working or failing
Optimize ==
    /\ pc = "call"
    /\ \E ok \in BOOLEAN :
         /\ solver_ok' = ok
         /\ \E o \in optimize_lineup(team_df, availability, fatigue, home_score,
                                     away_score, pre_selected, cap_arg, LineupSize, ok) :
              /\ pc' = o.pc
              /\ result' = o.result
              /\ solver_called' = o.solver_called
    /\ UNCHANGED <<team_df, availability, fatigue, home_score, away_score,
                   pre_selected, cap_arg, weight, stint_dur, on_court,
                   fatigue_before, stints>>
    /\ UNCHANGED <<adjVars, shellVars>>

NextOpt == Optimize

SpecOpt == InitOpt /\ [][NextOpt]_vars

\* ------------------------------- specification: calculate_strategy_weight
InitWeight ==
    /\ team_df = Table(<<0>>, <<0>>)
    /\ availability = [p \in TeamIds |-> TRUE]
    /\ fatigue = Fresh
    /\ home_score \in 0..MaxScore
    /\ away_score \in 0..MaxScore
    /\ pre_selected = <<>>
    /\ cap_arg = DisabilityCap
    /\ solver_ok = TRUE
    /\ pc = "weigh"
    /\ result = NoResult
    /\ solver_called = FALSE
    /\ weight = -1
    /\ stint_dur = 0
    /\ on_court = <<>>
    /\ fatigue_before = Fresh
    /\ stints = 0
    /\ AdjIdle
    /\ ShellIdle

Weigh ==
    /\ pc = "weigh"
    /\ weight' = calculate_strategy_weight(home_score, away_score)
    /\ pc' = "weighed"
    /\ UNCHANGED <<team_df, availability, fatigue, home_score, away_score,
                   pre_selected, cap_arg, solver_ok, result, solver_called,
                   stint_dur, on_court, fatigue_before, stints>>
    /\ UNCHANGED <<adjVars, shellVars>>

NextWeight == Weigh

SpecWeight == InitWeight /\ [][NextWeight]_vars

\* ------------------------------ specification: update_fatigue_after_stint
InitFatigue ==
    /\ team_df = Table(<<0>>, <<0>>)
    /\ availability = [p \in TeamIds |-> TRUE]
    /\ fatigue = Fresh
    /\ home_score = 0
    /\ away_score = 0
    /\ pre_selected = <<>>
    /\ cap_arg = DisabilityCap
    /\ solver_ok = TRUE
    /\ pc = "stint"
    /\ result = NoResult
    /\ solver_called = FALSE
    /\ weight = -1
    /\ stint_dur = 0
    /\ on_court = <<>>
    /\ fatigue_before = Fresh
    /\ stints = 0
    /\ AdjIdle
    /\ ShellIdle

\* st.session_state.fatigue = update_fatigue_after_stint(dur, lineup)
StintUpdate ==
    /\ pc = "stint"
    /\ stints < MaxStints
    /\ \E dur \in Durations, lineup \in Lineups :
         /\ stint_dur' = dur
         /\ on_court' = lineup
         /\ fatigue_before' = fatigue
         /\ fatigue' = update_fatigue_after_stint(fatigue, dur, lineup)
    /\ stints' = stints + 1
    /\ UNCHANGED <<team_df, availability, home_score, away_score, pre_selected,
                   cap_arg, solver_ok, pc, result, solver_called, weight>>
    /\ UNCHANGED <<adjVars, shellVars>>

NextFatigue == StintUpdate

SpecFatigue == InitFatigue /\ [][NextFatigue]_vars

\* ------------------------------------------------ specification: _adj
InitAdj ==
    /\ team_df = Table(<<0>>, <<0>>)
    /\ availability = [p \in TeamIds |-> TRUE]
    /\ fatigue = Fresh
    /\ \E sb \in Scoreboards : home_score = sb[1] /\ away_score = sb[2]
    /\ pre_selected = <<>>
    /\ cap_arg = DisabilityCap
    /\ solver_ok = TRUE
    /\ pc = "adjust"
    /\ result = NoResult
    /\ solver_called = FALSE
    /\ weight = -1
    /\ stint_dur = 0
    /\ on_court = <<>>
    /\ fatigue_before = Fresh
    /\ stints = 0
    /\ adj_beta \in Betas
    /\ adj_t \in EnergyFractions
    /\ adj_alpha = 0
    /\ adj_score = 0
    /\ ShellIdle

\* alpha = calculate_strategy_weight(...); score_adjusted of the row
Adjust ==
    /\ pc = "adjust"
    /\ pc' = "adjusted"
    /\ adj_alpha' = calculate_strategy_weight(home_score, away_score)
    /\ adj_score' = ScoreAdjusted(adj_alpha', adj_beta, adj_t)
    /\ UNCHANGED <<team_df, availability, fatigue, home_score, away_score,
                   pre_selected, cap_arg, solver_ok, result, solver_called,
                   weight, stint_dur, on_court, fatigue_before, stints,
                   adj_beta, adj_t>>
    /\ UNCHANGED shellVars

NextAdj == Adjust

SpecAdj == InitAdj /\ [][NextAdj]_vars

\* ------------------------------------------- specification: the dashboard
\* the session state after ensure_state
InitShell ==
    /\ team_df = ShellTeam
    /\ availability = [p \in TeamIds |-> TRUE]
    /\ fatigue = Fresh
    /\ home_score = 0
    /\ away_score = 0
    /\ pre_selected = <<>>
    /\ cap_arg = DisabilityCap
    /\ solver_ok = TRUE
    /\ pc = "shell"
    /\ result = NoResult
    /\ solver_called = FALSE
    /\ weight = -1
    /\ stint_dur = 0
    /\ on_court = <<>>
    /\ fatigue_before = Fresh
    /\ stints = 0
    /\ AdjIdle
    /\ ShellIdle

\* a handler that does not call the optimizer
NoCall ==
    /\ solver_ok' = TRUE
    /\ solver_called' = FALSE
    /\ result' = NoResult
    /\ st_error' = FALSE
    /\ crashed' = FALSE

\* res = optimize_lineup(...); last_opt = res; if res["lineup"]: lineup = ...
Suggest_overwrite(fatigue_levels) ==
    \E ok \in BOOLEAN :
      \E w \in app_optimize_lineup(team_df, availability, fatigue_levels,
                                   home_score, away_score, pre_selected, ok) :
        /\ solver_ok' = ok
        /\ solver_called' = w.solver_called
        /\ result' = w.result
        /\ st_error' = w.st_error
        /\ crashed' = w.crashed
        /\ last_opt' = w.result
        /\ session_lineup' = w.result.lineup

Suggest(fatigue_levels) ==
    \E ok \in BOOLEAN :
      \E w \in app_optimize_lineup(team_df, availability, fatigue_levels,
                                   home_score, away_score, pre_selected, ok) :
        /\ solver_ok' = ok
        /\ solver_called' = w.solver_called
        /\ result' = w.result
        /\ st_error' = w.st_error
        /\ crashed' = w.crashed
        /\ last_opt' = IF w.crashed THEN last_opt ELSE w.result
        /\ session_lineup' = IF ~w.crashed /\ w.result.lineup # <<>>
                             THEN w.result.lineup ELSE session_lineup

untouched == <<team_df, cap_arg, pc, weight, stint_dur, on_court,
               fatigue_before, adjVars>>

\* time passes
Tick ==
    /\ clock < 600 * MaxClock
    /\ clock' = clock + 600
    /\ event' = "tick"
    /\ NoCall
    /\ UNCHANGED <<availability, fatigue, home_score, away_score, pre_selected,
                   stints, session_lineup, last_opt, stint_start, game_start,
                   live_stints, untouched>>

\* an availability checkbox is flipped
ToggleAvailability ==
    /\ \E p \in Toggled :
         availability' = [availability EXCEPT ![p] = ~availability[p]]
    /\ event' = "availability"
    /\ NoCall
    /\ UNCHANGED <<fatigue, home_score, away_score, pre_selected, stints,
                   session_lineup, last_opt, stint_start, game_start,
                   live_stints, clock, untouched>>

\* the pre-selection slots
SetSlots ==
    /\ pre_selected' \in SlotChoices
    /\ event' = "slots"
    /\ NoCall
    /\ UNCHANGED <<availability, fatigue, home_score, away_score, stints,
                   session_lineup, last_opt, stint_start, game_start,
                   live_stints, clock, untouched>>

\* Start Stint
StartStint ==
    /\ stint_start' = IF stint_start = <<>> THEN <<clock>> ELSE stint_start
    /\ event' = "start_stint"
    /\ NoCall
    /\ UNCHANGED <<availability, fatigue, home_score, away_score, pre_selected,
                   stints, session_lineup, last_opt, game_start, live_stints,
                   clock, untouched>>

\* End + Save
EndSave ==
    /\ stints < MaxSaves
    /\ event' = "end_save"
    /\ LET dur == elapsed(stint_start, clock)
       IN  IF dur = <<>> \/ InvalidLineup(session_lineup)
           THEN /\ NoCall
                /\ UNCHANGED <<fatigue, stints, session_lineup, last_opt,
                               stint_start, live_stints>>
           ELSE /\ live_stints' = Append(live_stints, StintRecord(dur, clock))
                /\ fatigue' = update_fatigue_after_stint(fatigue, dur[1],
                                                         session_lineup)
                /\ stint_start' = <<>>
                /\ stints' = stints + 1
                /\ Suggest(fatigue')
    /\ UNCHANGED <<availability, home_score, away_score, pre_selected,
                   game_start, clock, untouched>>

\* Start Game
StartGame ==
    /\ event' = "start_game"
    /\ IF game_start = <<>>
       THEN /\ game_start' = <<clock>>
            /\ Suggest(fatigue)
       ELSE /\ NoCall
            /\ UNCHANGED <<game_start, session_lineup, last_opt>>
    /\ UNCHANGED <<availability, fatigue, home_score, away_score, pre_selected,
                   stints, stint_start, live_stints, clock, untouched>>

\* Stop Game
StopGame ==
    /\ game_start' = <<>>
    /\ event' = "stop_game"
    /\ NoCall
    /\ UNCHANGED <<availability, fatigue, home_score, away_score, pre_selected,
                   stints, session_lineup, last_opt, stint_start, live_stints,
                   clock, untouched>>

\* Optimize
OptimizeButton ==
    /\ event' = "optimize"
    /\ Suggest(fatigue)
    /\ UNCHANGED <<availability, fatigue, home_score, away_score, pre_selected,
                   stints, stint_start, game_start, live_stints, clock,
                   untouched>>

\* Clear Selection; the rerun refills pre_selected from the slot widgets,
\* which keep their values
ClearSelection ==
    /\ session_lineup' = <<>>
    /\ last_opt' = NoResult
    /\ event' = "clear"
    /\ NoCall
    /\ UNCHANGED <<availability, fatigue, home_score, away_score, pre_selected,
                   stints, stint_start, game_start, live_stints, clock,
                   untouched>>

\* Clear / Reset: reset_all, then ensure_state on the rerun
ResetAll ==
    /\ live_stints' = <<>>
    /\ availability' = [p \in TeamIds |-> TRUE]
    /\ fatigue' = ResetFatigue
    /\ pre_selected' = <<>>
    /\ session_lineup' = <<>>
    /\ home_score' = 0
    /\ away_score' = 0
    /\ game_start' = <<>>
    /\ stint_start' = <<>>
    /\ last_opt' = NoResult
    /\ event' = "reset"
    /\ NoCall
    /\ UNCHANGED <<stints, clock, untouched>>

NextShell ==
    \/ Tick
    \/ ToggleAvailability
    \/ SetSlots
    \/ StartStint
    \/ EndSave
    \/ StartGame
    \/ StopGame
    \/ OptimizeButton
    \/ ClearSelection
    \/ ResetAll

SpecShell == InitShell /\ [][NextShell]_vars

\* ------------------------------------------------------------------ claims
\* what the claims read off a state
AvailableNow == {p \in TeamIds : availability[p]}
ForcedNow == SeqToSet(pre_selected)
AlphaNow == calculate_strategy_weight(home_score, away_score)
CostOf(S) == SumOver(S, [p \in TeamIds |-> team_df[p].disability_score])
AdjustedNow ==
    [p \in TeamIds |->
        ScoreAdjusted(AlphaNow, team_df[p].value_score, LevelToTj(fatigue[p]))]
ScoreOf(S) == SumOver(S, AdjustedNow)
HasLineup == pc = "returned" /\ result.lineup # <<>>
LineupSet == SeqToSet(result.lineup)

\* size-4 subsets of the available players that contain every forced id and
\* whose disability sum is within cap (the brute-force reference)
Reference(cap) ==
    {S \in SUBSET AvailableNow :
        /\ Cardinality(S) = LineupSize
        /\ ForcedNow \subseteq S
        /\ CostOf(S) <= cap}

\* C1: a returned non-empty lineup has exactly 4 ids, all distinct, all rows of
\* the team that are available; its disability sum is within the cap of 8 and
\* it holds every pre-selected id.
C1_LineupFeasible ==
    HasLineup =>
        /\ Len(result.lineup) = LineupSize
        /\ \A i, j \in 1..Len(result.lineup) :
               i # j => result.lineup[i] # result.lineup[j]
        /\ \A i \in 1..Len(result.lineup) :
               /\ result.lineup[i] \in TeamIds
               /\ availability[result.lineup[i]]
        /\ CostOf(LineupSet) <= DisabilityCap
        /\ result.disability_sum <= DisabilityCap
        /\ \A k \in 1..Len(pre_selected) : pre_selected[k] \in LineupSet

\* a lineup returned with a forced id, its disability sum at the cap, and a
\* switched-off player left out who outscores a member of the lineup
C1_Witness ==
    /\ HasLineup
    /\ pre_selected # <<>>
    /\ result.disability_sum = DisabilityCap
    /\ \E u \in TeamIds \ AvailableNow :
           \E m \in LineupSet : AdjustedNow[u] > AdjustedNow[m]

\* C2: whenever a feasible lineup exists (and the solver works), the call returns
\* a lineup whose objective is the maximum of the summed adjusted scores over the
\* brute-force reference; with values [3,-2,5,1,0], costs 2, all fresh and a tied
\* score the lineup is the players with values 5, 3, 1, 0.
C2_ObjectiveIsMaximum ==
    /\ (pc # "call" /\ solver_ok /\ Reference(DisabilityCap) # {}) =>
          /\ HasLineup
          /\ LineupSet \in Reference(DisabilityCap)
          /\ result.objective = ScoreOf(LineupSet)
          /\ \A S \in Reference(DisabilityCap) : ScoreOf(S) <= result.objective
    /\ LET ids == InOrder(AvailableNow, NPlayers)
       IN  ( /\ pc # "call" /\ solver_ok
             /\ [i \in 1..Len(ids) |-> team_df[ids[i]].value_score] = <<3, -2, 5, 1, 0>>
             /\ \A p \in AvailableNow :
                    team_df[p].disability_score = 2 /\ fatigue[p] = FatigueMax
             /\ home_score = away_score
             /\ pre_selected = <<>> ) =>
           /\ HasLineup
           /\ [i \in 1..Len(result.lineup) |-> team_df[result.lineup[i]].value_score]
                  = <<3, 5, 1, 0>>

\* a forced player who is not among the best four: without the forced id a
\* strictly better lineup within the cap exists, and fatigue changes the scores
C2_Witness ==
    /\ HasLineup
    /\ Len(pre_selected) = 1
    /\ AlphaNow > 0
    /\ fatigue # Fresh
    /\ \E S \in SUBSET AvailableNow :
           /\ Cardinality(S) = LineupSize
           /\ CostOf(S) <= DisabilityCap
           /\ ScoreOf(S) > result.objective

\* C3 (as stated): the cap enforced is the cap argument of the call: a returned
\* lineup has disability sum within cap_arg and is optimal among the lineups
\* within cap_arg.
C3_CapArgumentEnforced ==
    HasLineup =>
        /\ CostOf(LineupSet) <= cap_arg
        /\ \A S \in Reference(cap_arg) : ScoreOf(S) <= result.objective

\* C4: if some pre-selected id is not an available player of the team, the call
\* returns the infeasible result, whatever the other forced ids are.
C4_ForcedAllOrNothing ==
    (pc # "call" /\ ~(ForcedNow \subseteq AvailableNow)) =>
        /\ pc = "returned"
        /\ result = InfeasibleResult

\* two forced ids, one available and one not, with enough players available
C4_Witness ==
    /\ pc = "returned"
    /\ result = InfeasibleResult
    /\ Cardinality(AvailableNow) >= LineupSize
    /\ ForcedNow \cap AvailableNow # {}
    /\ ForcedNow \ AvailableNow # {}
    /\ \E S \in SUBSET AvailableNow :
           /\ Cardinality(S) = LineupSize
           /\ (ForcedNow \cap AvailableNow) \subseteq S
           /\ CostOf(S) <= DisabilityCap

\* C5: with fewer than 4 players available the call returns the infeasible result
\* as a value, without raising and without entering the solver.
C5_TooFewAvailable ==
    (pc # "call" /\ Cardinality(AvailableNow) < LineupSize) =>
        /\ pc = "returned"
        /\ result = InfeasibleResult
        /\ ~solver_called

\* three players available, and a solver that would have failed
C5_Witness ==
    /\ pc = "returned"
    /\ Cardinality(AvailableNow) = LineupSize - 1
    /\ ~solver_ok
    /\ result = InfeasibleResult

\* C6: with at least 4 players available and every forced id available, but no
\* size-4 subset with the forced ids within the cap, a working solver's verdict
\* comes back as the infeasible result and not as an exception.
C6_InfeasibleIsAValue ==
    ( /\ pc # "call" /\ solver_ok
      /\ Cardinality(AvailableNow) >= LineupSize
      /\ ForcedNow \subseteq AvailableNow
      /\ Reference(DisabilityCap) = {} ) =>
        /\ pc = "returned"
        /\ result = InfeasibleResult

\* the forced ids fit the lineup and lineups within the cap exist, but none
\* holds the forced ids
C6_Witness ==
    /\ pc = "returned"
    /\ solver_called
    /\ result = InfeasibleResult
    /\ pre_selected # <<>>
    /\ Cardinality(ForcedNow) <= LineupSize
    /\ ForcedNow \subseteq AvailableNow
    /\ \E S \in SUBSET AvailableNow :
           Cardinality(S) = LineupSize /\ CostOf(S) <= DisabilityCap

C8_FatigueBounds ==
    /\ \A p \in TeamIds :
           /\ 0 <= fatigue[p] /\ fatigue[p] <= FatigueMax
           /\ TMin <= LevelToTj(fatigue[p]) /\ LevelToTj(fatigue[p]) <= TMax
    /\ \A level \in {fatigue[p] : p \in TeamIds}, d \in Durations, b \in BOOLEAN :
           LET t == update_fatigue_multiplier(LevelToTj(level), d \div 60, b)
           IN  TMin <= t /\ t <= TMax

\* a player driven to the floor by a stint that would have taken t below 0.3
C8_Witness ==
    /\ stints > 0
    /\ \E p \in SeqToSet(on_court) :
           /\ fatigue[p] = 0
           /\ StintTNew(LevelToTj(fatigue_before[p]), stint_dur \div 60, TRUE) < TMin

\* C9 (as stated): an update with zero or negative duration returns the fatigue
\* map it read.
C9_NonPositiveDurationNoOp ==
    (stints > 0 /\ stint_dur <= 0) => fatigue = fatigue_before

\* C10: for a duration >= 0 an on-court player ends no higher than before and a
\* benched player no lower; from any reached fatigue map, a longer stint leaves
\* an on-court player no higher and a benched player no lower than a shorter one.
C10_MonotoneInDuration ==
    /\ (stints > 0 /\ stint_dur >= 0) =>
          \A p \in TeamIds :
              IF p \in SeqToSet(on_court)
              THEN /\ fatigue[p] <= fatigue_before[p]
                   /\ LevelToTj(fatigue[p]) <= LevelToTj(fatigue_before[p])
              ELSE /\ fatigue[p] >= fatigue_before[p]
                   /\ LevelToTj(fatigue[p]) >= LevelToTj(fatigue_before[p])
    /\ \A level \in {fatigue[p] : p \in TeamIds}, d1, d2 \in Durations :
          (0 <= d1 /\ d1 < d2) =>
              /\ StintLevel(level, d2 \div 60, TRUE) <= StintLevel(level, d1 \div 60, TRUE)
              /\ StintLevel(level, d2 \div 60, FALSE) >= StintLevel(level, d1 \div 60, FALSE)

\* a stint of positive length that tired an on-court player and rested a benched one
C10_Witness ==
    /\ stints > 0
    /\ stint_dur > 0
    /\ \E p \in SeqToSet(on_court) : fatigue[p] < fatigue_before[p]
    /\ \E p \in TeamIds \ SeqToSet(on_court) : fatigue[p] > fatigue_before[p]

\* C11 as stated: for a negative base score the adjusted score is
\* non-increasing in t, i.e. at any fresher t it is never higher than at
\* the t of the row.
C11_NegativeNonIncreasing ==
    (pc = "adjusted" /\ adj_beta < 0) =>
        \A t \in EnergyFractions :
            t > adj_t => ScoreAdjusted(adj_alpha, adj_beta, t) <= adj_score

\* C11 amended: for a negative base score the adjusted score beta*(1/t)^alpha
\* is non-decreasing in t: at any fresher t it is never lower than at the t of
\* the row, strictly higher when alpha > 0, and equal to beta when alpha = 0.
C11_NegativeNonDecreasing ==
    (pc = "adjusted" /\ adj_beta < 0) =>
        /\ adj_alpha = 0 => adj_score = adj_beta * ScoreScale
        /\ adj_alpha > 0 =>
               adj_score * Pow(adj_t, adj_alpha) =
                   adj_beta * ScoreScale * Pow(10, adj_alpha)
        /\ \A t \in EnergyFractions :
               t > adj_t =>
                   /\ ScoreAdjusted(adj_alpha, adj_beta, t) >= adj_score
                   /\ adj_alpha > 0 =>
                          ScoreAdjusted(adj_alpha, adj_beta, t) > adj_score

\* a fully fatigued negative-value row under alpha = 2: its adjusted score is
\* below its base score
C11_Witness ==
    /\ pc = "adjusted"
    /\ adj_beta < 0
    /\ adj_alpha = 2
    /\ adj_t = TMin
    /\ adj_score < adj_beta * ScoreScale

\* C12: for a non-negative base score the adjusted score is beta*t^alpha
\* when alpha > 0 and beta when alpha <= 0, and it is non-decreasing in t.
C12_NonNegativeScore ==
    (pc = "adjusted" /\ adj_beta >= 0) =>
        /\ adj_alpha <= 0 => adj_score = adj_beta * ScoreScale
        /\ adj_alpha > 0 =>
               adj_score * Pow(10, adj_alpha) =
                   adj_beta * ScoreScale * Pow(adj_t, adj_alpha)
        /\ \A t \in EnergyFractions :
               t > adj_t => ScoreAdjusted(adj_alpha, adj_beta, t) >= adj_score

\* a tired positive-value row under alpha = 2: its adjusted score is below
\* its base score
C12_Witness ==
    /\ pc = "adjusted"
    /\ adj_beta > 0
    /\ adj_alpha = 2
    /\ adj_t < TMax
    /\ adj_score < adj_beta * ScoreScale

\* whether the sorted id tuple of S precedes that of T lexicographically
\* (S and T of the same size)
LexLess(S, T) ==
    /\ S # T
    /\ LET d == (S \ T) \cup (T \ S)
           m == CHOOSE x \in d : \A y \in d : x <= y
       IN  m \in S

\* C14: when several feasible lineups share the maximal objective, the lineup
\* returned is the lexicographically least of them by sorted player_id tuple.
C14_LexicographicTieBreak ==
    HasLineup =>
        \A S \in Reference(DisabilityCap) :
            ScoreOf(S) = ScoreOf(LineupSet) => ~LexLess(S, LineupSet)

CanSave ==
    /\ stint_start # <<>>
    /\ Len(session_lineup) = LineupSize
    /\ Cardinality(SeqToSet(session_lineup)) = LineupSize

\* C15: End + Save with a running timer and four distinct ids appends one
\* record, applies one fatigue update for the time since the stint started and
\* clears the timer; End + Save without a timer or without a valid lineup
\* changes neither fatigue nor history; Start Stint on a running timer leaves
\* the timer as it is; the history grows in no other way.
C15_StintSavedOnce ==
    [][ /\ (event' = "end_save" /\ CanSave) =>
              /\ Len(live_stints') = Len(live_stints) + 1
              /\ SubSeq(live_stints', 1, Len(live_stints)) = live_stints
              /\ live_stints'[Len(live_stints')].lineup = session_lineup
              /\ live_stints'[Len(live_stints')].stint_duration =
                     <<(clock - stint_start[1]) \div 60, (clock - stint_start[1]) % 60>>
              /\ fatigue' = update_fatigue_after_stint(
                                fatigue, clock - stint_start[1], session_lineup)
              /\ stint_start' = <<>>
        /\ (event' = "end_save" /\ ~CanSave) =>
              UNCHANGED <<fatigue, live_stints, stint_start>>
        /\ (event' = "start_stint" /\ stint_start # <<>>) =>
              stint_start' = stint_start
        /\ (event' = "start_stint" /\ stint_start = <<>>) =>
              stint_start' = <<clock>>
        /\ Len(live_stints') > Len(live_stints) => event' = "end_save"
      ]_vars

\* a ten-minute stint has just been saved: one record, the timer cleared, the
\* players of the saved lineup tired
C15_Witness ==
    /\ event = "end_save"
    /\ Len(live_stints) = 1
    /\ live_stints[1].stint_duration = <<10, 0>>
    /\ stint_start = <<>>
    /\ \A p \in SeqToSet(live_stints[1].lineup) : fatigue[p] < FatigueMax

\* C16: Optimize leaves fatigue, availability and the roster as they are;
\* fatigue changes only by the update of End + Save or by the reset to 100.
C16_OptimizeReadsOnly ==
    [][ /\ event' \in {"optimize", "start_game"} =>
              UNCHANGED <<fatigue, availability, team_df>>
        /\ event' = "end_save" => UNCHANGED <<availability, team_df>>
        /\ fatigue' # fatigue =>
              \/ /\ event' = "end_save"
                 /\ CanSave
                 /\ fatigue' = update_fatigue_after_stint(
                                   fatigue, clock - stint_start[1], session_lineup)
              \/ /\ event' = "reset"
                 /\ \A p \in TeamIds : fatigue'[p] = FatigueMax
      ]_vars

\* Optimize has stored a lineup while some player is tired
C16_Witness ==
    /\ event = "optimize"
    /\ result.lineup # <<>>
    /\ session_lineup = result.lineup
    /\ \E p \in TeamIds : fatigue[p] < FatigueMax

\* whether the handler that just ran called the wrapper
Selected == NoResult # result'

\* C17: a selection that returns an empty lineup replaces last_opt and keeps the
\* stored lineup; the stored lineup is empty or four distinct ids; End + Save
\* applies the on-court decay to every player of the stored lineup, available
\* or not.
C17_LineupRetained ==
    /\ [](\/ session_lineup = <<>>
          \/ /\ Len(session_lineup) = LineupSize
             /\ Cardinality(SeqToSet(session_lineup)) = LineupSize)
    /\ [][ /\ (Selected /\ result'.lineup = <<>>) =>
                 /\ session_lineup' = session_lineup
                 /\ last_opt' = result'
           /\ (Selected /\ result'.lineup # <<>>) =>
                 /\ session_lineup' = result'.lineup
                 /\ last_opt' = result'
           /\ (event' = "end_save" /\ CanSave) =>
                 \A p \in SeqToSet(session_lineup) :
                     fatigue'[p] = StintLevel(fatigue[p],
                                              (clock - stint_start[1]) \div 60, TRUE)
         ]_vars

\* a stint saved for a lineup that holds a player switched off since, with the
\* selection that followed empty and the lineup kept
C17_Witness ==
    /\ event = "end_save"
    /\ live_stints # <<>>
    /\ ~st_error
    /\ result = InfeasibleResult
    /\ last_opt = InfeasibleResult
    /\ session_lineup = live_stints[Len(live_stints)].lineup
    /\ \E p \in SeqToSet(session_lineup) :
           ~availability[p] /\ fatigue[p] < FatigueMax

====
